---- MODULE Spec2Model ----
(***************************************************************************)
(* Kinetophone (src/index.js): a playback clock 0..totalDuration drives    *)
(* per-channel timings; the engine emits enter/exit events as timings      *)
(* become active or inactive.                                              *)
(*                                                                         *)
(* The engine is modelled as a record of its fields; every method of       *)
(* Kinetophone.prototype is an operator from an engine record (and the     *)
(* call's arguments) to the engine record after the call.  The actions at  *)
(* the end apply one public call, or one callback of the clock, to the     *)
(* state variables.                                                        *)
(*                                                                         *)
(* The three libraries the file requires are modelled by what index.js     *)
(* uses of them:                                                           *)
(*   interval-tree  add([start, end, payload]); search(point) returns the  *)
(*                  entries whose closed interval holds the point,         *)
(*                  search(a, b) the entries whose closed interval meets   *)
(*                  [a, b].  A tree is the sequence of its entries in      *)
(*                  insertion order, and an entry is known by its place.   *)
(*   timex          currentTime, start(), pause(), set(time), setRate(r);  *)
(*                  while running it calls the registered callback with    *)
(*                  its non-decreasing currentTime.                        *)
(*   eventemitter3  emit(name, payload): recorded in the log `emitted`.    *)
(***************************************************************************)
EXTENDS Integers, Sequences, FiniteSets, TLC

(***************************************************************************)
(* Bounds of the model.                                                    *)
(***************************************************************************)
MaxTime == 3
MaxDuration == 2
MaxStep == 1
MaxRate == 1
MaxResolution == 2
MaxTimings == 3
MaxCount == 2

(***************************************************************************)
(* Program constants.                                                      *)
(***************************************************************************)
DefaultTickResolution == 33

(***************************************************************************)
(* Inputs.                                                                 *)
(***************************************************************************)
ChannelNames == {"a", "b"}

\* Timing declarations: a point, an end, a duration, and one declaring both
\* end and duration.
PointTiming == [start |-> 1]
EndTiming == [start |-> 0, end |-> 2, data |-> "hi"]
DurationTiming == [start |-> 1, duration |-> 2]
BothTiming == [start |-> 1, end |-> 3, duration |-> 2]

\* The timings addTiming is called with.
TimingDecls == {DurationTiming, BothTiming}

\* The timings lists addChannel is called with.
TimingLists ==
  { <<EndTiming, PointTiming>>,
    <<EndTiming, PointTiming, BothTiming>> }

\* A time that is null (_lastTimerCallback = null) is the empty set, a time t
\* that is set is {t}.
Null == {}
Some(t) == {t}
ValueOf(m) == CHOOSE t \in m : TRUE

Has(timing, key) == key \in DOMAIN timing

Range(s) == {s[i] : i \in DOMAIN s}

(***************************************************************************)
(* Errors thrown.                                                          *)
(***************************************************************************)
NoError == ""
DuplicateChannel == "Duplicate channel name"
UnknownChannel == "No such channel"
ConflictingBounds == "Cannot specify both 'end' and 'duration'"
InvalidDuration == "You must specify a non-null total duration"

(***************************************************************************)
(* Channels: this._channels is an object keyed by name; Object.keys lists  *)
(* the names in insertion order.  It is the sequence of its values.        *)
(***************************************************************************)
Names(e) == [i \in DOMAIN e._channels |-> e._channels[i].name]

HasChannel(e, name) == \E i \in DOMAIN e._channels : e._channels[i].name = name

IndexOf(e, name) == CHOOSE i \in DOMAIN e._channels : e._channels[i].name = name

Channel(e, name) == e._channels[IndexOf(e, name)]

DeleteChannel(e, name) ==
  [e EXCEPT !._channels = SelectSeq(@, LAMBDA c : c.name # name)]

(***************************************************************************)
(* EventEmitter.emit.  `of` names the tree entry an enter/exit is about    *)
(* (<<channel, place>>), and is <<>> for the other events.  count keeps,   *)
(* per tree entry, the number of "enter" and of "exit" emitted for it      *)
(* while the playback is a first, uninterrupted one.                       *)
(***************************************************************************)
Bump(n) == IF n < MaxCount THEN n + 1 ELSE n

emit(e, name, payload, of) ==
  LET logged == [e EXCEPT !.emitted = Append(@, [name |-> name, payload |-> payload, of |-> of])]
  IN  IF name \in {"enter", "exit"}
      THEN [logged EXCEPT
              !.count[of[1]][of[2]][name] = IF e.phase = "other" THEN @ ELSE Bump(@)]
      ELSE logged

(***************************************************************************)
(* timingFromRawData, lines 262-268.                                       *)
(***************************************************************************)
timingFromRawData(channel, timing) ==
  LET keys == {"name", "start"} \cup ({"data", "end", "duration"} \cap DOMAIN timing.data)
  IN  [k \in keys |-> IF k = "name" THEN channel ELSE timing.data[k]]

(***************************************************************************)
(* IntervalTree.                                                           *)
(***************************************************************************)
TreeAdd(tree, start, end, payload) ==
  Append(tree, [start |-> start, end |-> end, data |-> payload])

\* tree.search(point): the places of the entries whose closed interval holds it.
SearchPoint(tree, point) ==
  SelectSeq([i \in DOMAIN tree |-> i],
            LAMBDA i : tree[i].start <= point /\ point <= tree[i].end)

\* tree.search(a, b): the places of the entries whose closed interval meets [a, b].
SearchRange(tree, a, b) ==
  SelectSeq([i \in DOMAIN tree |-> i],
            LAMBDA i : tree[i].start <= b /\ a <= tree[i].end)

\* _addTimingToTree without the throw of lines 73-75: a timing with both end
\* and duration is inserted with its end.
_addTimingToTree_EndWins(tree, timing) ==
  LET end == IF Has(timing, "end") THEN timing.end
             ELSE IF Has(timing, "duration") THEN timing.start + timing.duration
             ELSE timing.start + 1
  IN  [tree |-> TreeAdd(tree, timing.start, end,
                        [start |-> timing.start, end |-> end, data |-> timing]),
       thrown |-> NoError]

(***************************************************************************)
(* _addTimingToTree, lines 65-78: the tree after the call, and what was    *)
(* thrown.                                                                 *)
(***************************************************************************)
_addTimingToTree(tree, timing) ==
  IF ~Has(timing, "end") /\ ~Has(timing, "duration")
  THEN [tree |-> TreeAdd(tree, timing.start, timing.start + 1,
                         [start |-> timing.start, end |-> timing.start + 1, data |-> timing]),
        thrown |-> NoError]
  ELSE IF ~Has(timing, "end")
  THEN [tree |-> TreeAdd(tree, timing.start, timing.start + timing.duration,
                         [start |-> timing.start, end |-> timing.start + timing.duration, data |-> timing]),
        thrown |-> NoError]
  ELSE IF ~Has(timing, "duration")
  THEN [tree |-> TreeAdd(tree, timing.start, timing.end,
                         [start |-> timing.start, end |-> timing.end, data |-> timing]),
        thrown |-> NoError]
  ELSE [tree |-> tree, thrown |-> ConflictingBounds]

(***************************************************************************)
(* Insertion of one timing into a channel's tree (the body of the forEach  *)
(* of addChannel, lines 49-51, and lines 61-62 of addTiming).  The tree is *)
(* the object the channel holds, so an insertion is seen through the       *)
(* channel.  A new entry has had no event.                                 *)
(***************************************************************************)
InsertTiming(e, name, timing) ==
  LET i == IndexOf(e, name)
      r == _addTimingToTree(e._channels[i].tree, timing)
  IN  IF r.thrown # NoError
      THEN [e EXCEPT !.thrown = r.thrown]
      ELSE [e EXCEPT !._channels[i].tree = r.tree,
                     !.count[name] = Append(@, [enter |-> 0, exit |-> 0])]

RECURSIVE InsertTimings(_, _, _, _)
InsertTimings(e, name, timings, k) ==
  IF k > Len(timings) \/ e.thrown # NoError
  THEN e
  ELSE InsertTimings(InsertTiming(e, name, timings[k]), name, timings, k + 1)

\* addChannel without the check of lines 35-37: the channel of that name is
\* stored over the one there.
addChannel_NoDuplicateCheck(e, channel) ==
  LET name == channel.name
      timings == channel.timings
      fresh == [name |-> name, timings |-> timings, tree |-> <<>>]
      stored ==
        [e EXCEPT
           !._channels = IF HasChannel(e, name)
                         THEN [@ EXCEPT ![IndexOf(e, name)] = fresh]
                         ELSE Append(@, fresh),
           !._activeTimingsPerChannel =
              [n \in DOMAIN @ \cup {name} |-> IF n = name THEN <<>> ELSE @[n]],
           !.count = [n \in DOMAIN @ \cup {name} |-> IF n = name THEN <<>> ELSE @[n]]]
  IN  InsertTimings(stored, name, timings, 1)

(***************************************************************************)
(* addChannel, lines 32-52.  The channel and its empty active list are     *)
(* stored (lines 42-47) before the timings are inserted (lines 49-51).     *)
(***************************************************************************)
addChannel(e, channel) ==
  LET name == channel.name
  IN  IF HasChannel(e, name)
      THEN [e EXCEPT !.thrown = DuplicateChannel]
      ELSE LET timings == channel.timings
               stored ==
                 [e EXCEPT
                    !._channels = Append(@, [name |-> name, timings |-> timings, tree |-> <<>>]),
                    !._activeTimingsPerChannel =
                       [n \in DOMAIN @ \cup {name} |-> IF n = name THEN <<>> ELSE @[n]],
                    !.count[name] = <<>>]
           IN  InsertTimings(stored, name, timings, 1)

\* addTiming that appends the timing to the channel's declared timings and
\* leaves the tree.
addTiming_DeclaredOnly(e, channelName, timing) ==
  IF ~HasChannel(e, channelName)
  THEN [e EXCEPT !.thrown = UnknownChannel]
  ELSE [e EXCEPT !._channels[IndexOf(e, channelName)].timings = Append(@, timing)]

(***************************************************************************)
(* addTiming, lines 54-63.                                                 *)
(***************************************************************************)
addTiming(e, channelName, timing) ==
  IF ~HasChannel(e, channelName)
  THEN [e EXCEPT !.thrown = UnknownChannel]
  ELSE InsertTiming(e, channelName, timing)

(***************************************************************************)
(* totalDuration(duration), lines 80-98, called with null (Null) or with a *)
(* number (Some(v)).  Each channel listed by Object.keys is deleted and    *)
(* added again from its name and its timings.                              *)
(***************************************************************************)
RECURSIVE RebuildChannels(_, _, _)
RebuildChannels(e, names, k) ==
  IF k > Len(names) \/ e.thrown # NoError
  THEN e
  ELSE LET channel == Channel(e, names[k])
       IN  RebuildChannels(
             addChannel(DeleteChannel(e, names[k]),
                        [name |-> channel.name, timings |-> channel.timings]),
             names, k + 1)

totalDuration(e, duration) ==
  IF duration = Null
  THEN [e EXCEPT !.thrown = InvalidDuration]
  ELSE RebuildChannels([e EXCEPT !._totalDuration = ValueOf(duration)], Names(e), 1)

(***************************************************************************)
(* _resolveTimingsForChannel, lines 181-215.                               *)
(***************************************************************************)
Payload(e, channel, place) == Channel(e, channel).tree[place].data

\* toEmit of the exit pass, lines 191-194.
ExitPayload(channel, timing) ==
  LET keys == {"name", "start"} \cup ({"data", "end", "duration"} \cap DOMAIN timing.data)
  IN  [k \in keys |-> IF k = "name" THEN channel
                      ELSE IF k = "start" THEN timing.start
                      ELSE timing.data[k]]

\* The exit pass with currentTime > timing.end for the test of line 190.
RECURSIVE ExitPass_EndInclusive(_, _, _, _, _)
ExitPass_EndInclusive(r, channel, currentTime, timingsRef, i) ==
  IF i > Len(timingsRef)
  THEN r
  ELSE LET timing == Payload(r.e, channel, timingsRef[i])
       IN  IF currentTime < timing.start \/ currentTime > timing.end
           THEN LET toEmit == ExitPayload(channel, timing)
                    of == <<channel, timingsRef[i]>>
                    e1 == emit(r.e, "exit", toEmit, of)
                    e2 == emit(e1, "exit:" \o channel, toEmit, of)
                IN  ExitPass_EndInclusive([e |-> e2, toRemove |-> <<i>> \o r.toRemove],
                                          channel, currentTime, timingsRef, i + 1)
           ELSE ExitPass_EndInclusive(r, channel, currentTime, timingsRef, i + 1)

\* Lines 189-200: the forEach over timingsRef; toRemove is timingsToRemove.
RECURSIVE ExitPass(_, _, _, _, _)
ExitPass(r, channel, currentTime, timingsRef, i) ==
  IF i > Len(timingsRef)
  THEN r
  ELSE LET timing == Payload(r.e, channel, timingsRef[i])
       IN  IF currentTime < timing.start \/ currentTime >= timing.end
           THEN LET toEmit == ExitPayload(channel, timing)
                    of == <<channel, timingsRef[i]>>
                    e1 == emit(r.e, "exit", toEmit, of)
                    e2 == emit(e1, "exit:" \o channel, toEmit, of)
                IN  ExitPass([e |-> e2, toRemove |-> <<i>> \o r.toRemove],
                             channel, currentTime, timingsRef, i + 1)
           ELSE ExitPass(r, channel, currentTime, timingsRef, i + 1)

\* Array.prototype.splice(idx, 1).
Splice(s, idx) == [j \in 1..(Len(s) - 1) |-> IF j < idx THEN s[j] ELSE s[j + 1]]

\* Lines 202-204.
RECURSIVE RemoveAll(_, _, _)
RemoveAll(timingsRef, toRemove, k) ==
  IF k > Len(toRemove)
  THEN timingsRef
  ELSE RemoveAll(Splice(timingsRef, toRemove[k]), toRemove, k + 1)

\* The enter pass without the indexOf test of line 208.
RECURSIVE EnterPass_NoIndexOf(_, _, _, _, _)
EnterPass_NoIndexOf(e, channel, currentTime, timingsToAdd, k) ==
  IF k > Len(timingsToAdd)
  THEN e
  ELSE LET place == timingsToAdd[k]
           timing == Payload(e, channel, place)
       IN  IF currentTime >= timing.start /\ currentTime < timing.end
           THEN LET toEmit == timingFromRawData(channel, timing)
                    of == <<channel, place>>
                    e1 == emit(e, "enter", toEmit, of)
                    e2 == emit(e1, "enter:" \o channel, toEmit, of)
                    e3 == [e2 EXCEPT !._activeTimingsPerChannel[channel] = Append(@, place)]
                IN  EnterPass_NoIndexOf(e3, channel, currentTime, timingsToAdd, k + 1)
           ELSE EnterPass_NoIndexOf(e, channel, currentTime, timingsToAdd, k + 1)

\* Lines 206-214: the forEach over timingsToAdd.
RECURSIVE EnterPass(_, _, _, _, _)
EnterPass(e, channel, currentTime, timingsToAdd, k) ==
  IF k > Len(timingsToAdd)
  THEN e
  ELSE LET place == timingsToAdd[k]
           timing == Payload(e, channel, place)
       IN  IF /\ currentTime >= timing.start
              /\ currentTime < timing.end
              /\ place \notin Range(e._activeTimingsPerChannel[channel])
           THEN LET toEmit == timingFromRawData(channel, timing)
                    of == <<channel, place>>
                    e1 == emit(e, "enter", toEmit, of)
                    e2 == emit(e1, "enter:" \o channel, toEmit, of)
                    e3 == [e2 EXCEPT !._activeTimingsPerChannel[channel] = Append(@, place)]
                IN  EnterPass(e3, channel, currentTime, timingsToAdd, k + 1)
           ELSE EnterPass(e, channel, currentTime, timingsToAdd, k + 1)

\* _resolveTimingsForChannel with the enter pass before the exit pass.
_resolveTimingsForChannel_EnterFirst(e, channel, lastTime, currentTime) ==
  LET tree == Channel(e, channel).tree
      timingsToAdd == IF lastTime = currentTime
                      THEN SearchPoint(tree, currentTime)
                      ELSE SearchRange(tree, lastTime, currentTime)
      entered == EnterPass(e, channel, currentTime, timingsToAdd, 1)
      timingsRef == entered._activeTimingsPerChannel[channel]
      exited == ExitPass([e |-> entered, toRemove |-> <<>>], channel, currentTime, timingsRef, 1)
  IN  [exited.e EXCEPT !._activeTimingsPerChannel[channel] =
                          RemoveAll(timingsRef, exited.toRemove, 1)]

_resolveTimingsForChannel(e, channel, lastTime, currentTime) ==
  LET timingsRef == e._activeTimingsPerChannel[channel]
      tree == Channel(e, channel).tree
      timingsToAdd == IF lastTime = currentTime
                      THEN SearchPoint(tree, currentTime)
                      ELSE SearchRange(tree, lastTime, currentTime)
      exited == ExitPass([e |-> e, toRemove |-> <<>>], channel, currentTime, timingsRef, 1)
      removed == [exited.e EXCEPT !._activeTimingsPerChannel[channel] =
                                     RemoveAll(timingsRef, exited.toRemove, 1)]
  IN  EnterPass(removed, channel, currentTime, timingsToAdd, 1)

(***************************************************************************)
(* _resolveTimings, lines 169-173.                                         *)
(***************************************************************************)
RECURSIVE ResolveEach(_, _, _, _, _)
ResolveEach(e, names, k, lastTime, currentTime) ==
  IF k > Len(names)
  THEN e
  ELSE ResolveEach(_resolveTimingsForChannel(e, names[k], lastTime, currentTime),
                   names, k + 1, lastTime, currentTime)

_resolveTimings(e, lastTime, currentTime) ==
  ResolveEach(e, Names(e), 1, lastTime, currentTime)

(***************************************************************************)
(* _clearAllTimingsForChannel, lines 217-225, and _clearAllTimings, lines  *)
(* 175-179.                                                                *)
(***************************************************************************)
RECURSIVE ClearPass(_, _, _, _)
ClearPass(e, channel, timings, i) ==
  IF i > Len(timings)
  THEN e
  ELSE LET toEmit == timingFromRawData(channel, Payload(e, channel, timings[i]))
           of == <<channel, timings[i]>>
           e1 == emit(e, "exit", toEmit, of)
           e2 == emit(e1, "exit:" \o channel, toEmit, of)
       IN  ClearPass(e2, channel, timings, i + 1)

_clearAllTimingsForChannel(e, channel) ==
  LET emitted1 == ClearPass(e, channel, e._activeTimingsPerChannel[channel], 1)
  IN  [emitted1 EXCEPT !._activeTimingsPerChannel[channel] = <<>>]

RECURSIVE ClearEach(_, _, _)
ClearEach(e, names, k) ==
  IF k > Len(names)
  THEN e
  ELSE ClearEach(_clearAllTimingsForChannel(e, names[k]), names, k + 1)

_clearAllTimings(e) == ClearEach(e, Names(e), 1)

\* pause without this._timer.pause() (line 125).
pause_ClockRunsOn(e) ==
  IF ~e._playing
  THEN e
  ELSE emit([e EXCEPT !._playing = FALSE], "pause", <<>>, <<>>)

\* pause without the test of line 121.
pause_Unguarded(e) ==
  LET stopped == [e EXCEPT !._playing = FALSE]
      told == emit(stopped, "pause", <<>>, <<>>)
  IN  [told EXCEPT !._timer.running = FALSE]

(***************************************************************************)
(* pause, lines 120-126, and play, lines 128-140.                          *)
(***************************************************************************)
pause(e) ==
  IF ~e._playing
  THEN e
  ELSE LET stopped == [e EXCEPT !._playing = FALSE]
           told == emit(stopped, "pause", <<>>, <<>>)
       IN  [told EXCEPT !._timer.running = FALSE]

\* play with > this._totalDuration for the test of line 131.
play_PastEnd(e) ==
  IF e._playing
  THEN e
  ELSE LET rewound ==
             IF e._timer.currentTime > e._totalDuration
             THEN _clearAllTimings([e EXCEPT !._timer.currentTime = 0,
                                             !._lastTimerCallback = Null])
             ELSE e
           started == [rewound EXCEPT !._playing = TRUE]
           told == emit(started, "play", <<>>, <<>>)
       IN  [told EXCEPT !._timer.running = TRUE]

play(e) ==
  IF e._playing
  THEN e
  ELSE LET rewound ==
             IF e._timer.currentTime >= e._totalDuration
             THEN _clearAllTimings([e EXCEPT !._timer.currentTime = 0,
                                             !._lastTimerCallback = Null])
             ELSE e
           started == [rewound EXCEPT !._playing = TRUE]
           told == emit(started, "play", <<>>, <<>>)
       IN  [told EXCEPT !._timer.running = TRUE]

\* _timerCallback without this.pause() (line 112) in the rollover.
_timerCallback_NoPause(e, time) ==
  LET resolved ==
        IF e._lastTimerCallback = Null
        THEN LET told == emit(e, "timeupdate", time, <<>>)
                 kept == [told EXCEPT !._lastTimerCallback = Some(time)]
             IN  _resolveTimings(kept, 0, time)
        ELSE IF time - ValueOf(e._lastTimerCallback) >= e._tickResolution
        THEN LET told == emit(e, "timeupdate", time, <<>>)
                 done == _resolveTimings(told, ValueOf(e._lastTimerCallback) + 1, time)
             IN  [done EXCEPT !._lastTimerCallback = Some(time)]
        ELSE e
  IN  IF time > resolved._totalDuration
      THEN LET reset == [resolved EXCEPT !._timer.currentTime = 0,
                                         !._lastTimerCallback = Null]
               cleared == _clearAllTimings(reset)
           IN  emit(cleared, "end", <<>>, <<>>)
      ELSE resolved

\* _timerCallback with > this._tickResolution for the test of line 105.
_timerCallback_LateBatch(e, time) ==
  LET resolved ==
        IF e._lastTimerCallback = Null
        THEN LET told == emit(e, "timeupdate", time, <<>>)
                 kept == [told EXCEPT !._lastTimerCallback = Some(time)]
             IN  _resolveTimings(kept, 0, time)
        ELSE IF time - ValueOf(e._lastTimerCallback) > e._tickResolution
        THEN LET told == emit(e, "timeupdate", time, <<>>)
                 done == _resolveTimings(told, ValueOf(e._lastTimerCallback) + 1, time)
             IN  [done EXCEPT !._lastTimerCallback = Some(time)]
        ELSE e
  IN  IF time > resolved._totalDuration
      THEN LET paused == pause(resolved)
               reset == [paused EXCEPT !._timer.currentTime = 0,
                                       !._lastTimerCallback = Null]
               cleared == _clearAllTimings(reset)
           IN  emit(cleared, "end", <<>>, <<>>)
      ELSE resolved

\* _timerCallback with time >= this._totalDuration for the test of line 111.
_timerCallback_AtDuration(e, time) ==
  LET resolved ==
        IF e._lastTimerCallback = Null
        THEN LET told == emit(e, "timeupdate", time, <<>>)
                 kept == [told EXCEPT !._lastTimerCallback = Some(time)]
             IN  _resolveTimings(kept, 0, time)
        ELSE IF time - ValueOf(e._lastTimerCallback) >= e._tickResolution
        THEN LET told == emit(e, "timeupdate", time, <<>>)
                 done == _resolveTimings(told, ValueOf(e._lastTimerCallback) + 1, time)
             IN  [done EXCEPT !._lastTimerCallback = Some(time)]
        ELSE e
  IN  IF time >= resolved._totalDuration
      THEN LET paused == pause(resolved)
               reset == [paused EXCEPT !._timer.currentTime = 0,
                                       !._lastTimerCallback = Null]
               cleared == _clearAllTimings(reset)
           IN  emit(cleared, "end", <<>>, <<>>)
      ELSE resolved

(***************************************************************************)
(* _timerCallback, lines 100-118.                                          *)
(***************************************************************************)
_timerCallback(e, time) ==
  LET resolved ==
        IF e._lastTimerCallback = Null
        THEN LET told == emit(e, "timeupdate", time, <<>>)
                 kept == [told EXCEPT !._lastTimerCallback = Some(time)]
             IN  _resolveTimings(kept, 0, time)
        ELSE IF time - ValueOf(e._lastTimerCallback) >= e._tickResolution
        THEN LET told == emit(e, "timeupdate", time, <<>>)
                 done == _resolveTimings(told, ValueOf(e._lastTimerCallback) + 1, time)
             IN  [done EXCEPT !._lastTimerCallback = Some(time)]
        ELSE e
  IN  IF time > resolved._totalDuration
      THEN LET paused == pause(resolved)
               reset == [paused EXCEPT !._timer.currentTime = 0,
                                       !._lastTimerCallback = Null]
               cleared == _clearAllTimings(reset)
           IN  emit(cleared, "end", <<>>, <<>>)
      ELSE resolved

(***************************************************************************)
(* currentTime(newTime), lines 146-159, called with a number.              *)
(***************************************************************************)
currentTime(e, newTime) ==
  LET kept == [e EXCEPT !._lastTimerCallback = Some(newTime)]
      low == IF newTime < 0 THEN 0 ELSE newTime
      clamped == IF low > e._totalDuration THEN e._totalDuration ELSE low
      e1 == emit(kept, "seeking", clamped, <<>>)
      e2 == [e1 EXCEPT !._timer.currentTime = clamped]
      e3 == emit(e2, "timeupdate", clamped, <<>>)
      e4 == _resolveTimings(e3, clamped, clamped)
  IN  emit(e4, "seek", clamped, <<>>)

(***************************************************************************)
(* currentTime(newTime) with a listener on "exit" that, the first time it  *)
(* is called, calls currentTime(listener.time): emit calls its listeners   *)
(* before it returns, so the inner call runs to its end inside the exit    *)
(* pass of the outer one (line 195).  timingsRef of the outer call is the  *)
(* array the inner call splices and pushes to, so the outer forEach reads  *)
(* the list as the inner call left it: forEach visits the indexes up to    *)
(* the length the array had when it began, those that are still there.     *)
(* What is returned: the engine, and the listener (pending until called).  *)
(***************************************************************************)
RECURSIVE ExitPassHeard(_, _, _, _, _)
ExitPassHeard(r, channel, now, length, i) ==
  IF i > length
  THEN r
  ELSE LET timingsRef == r.e._activeTimingsPerChannel[channel]
       IN  IF i > Len(timingsRef)
           THEN ExitPassHeard(r, channel, now, length, i + 1)
           ELSE LET timing == Payload(r.e, channel, timingsRef[i])
                IN  IF now < timing.start \/ now >= timing.end
                    THEN LET toEmit == ExitPayload(channel, timing)
                             of == <<channel, timingsRef[i]>>
                             e1 == emit(r.e, "exit", toEmit, of)
                             heard == IF r.listener.pending
                                      THEN currentTime(e1, r.listener.time)
                                      ELSE e1
                             e2 == emit(heard, "exit:" \o channel, toEmit, of)
                         IN  ExitPassHeard([e |-> e2,
                                            toRemove |-> <<i>> \o r.toRemove,
                                            listener |-> [r.listener EXCEPT !.pending = FALSE]],
                                           channel, now, length, i + 1)
                    ELSE ExitPassHeard(r, channel, now, length, i + 1)

\* Array.prototype.splice(idx, 1) where idx may be past the end.
SpliceAt(s, idx) == IF idx > Len(s) THEN s ELSE Splice(s, idx)

RECURSIVE RemoveAllAt(_, _, _)
RemoveAllAt(timingsRef, toRemove, k) ==
  IF k > Len(toRemove)
  THEN timingsRef
  ELSE RemoveAllAt(SpliceAt(timingsRef, toRemove[k]), toRemove, k + 1)

_resolveTimingsForChannelHeard(r, channel, lastTime, now) ==
  LET tree == Channel(r.e, channel).tree
      timingsToAdd == IF lastTime = now
                      THEN SearchPoint(tree, now)
                      ELSE SearchRange(tree, lastTime, now)
      exited == ExitPassHeard([e |-> r.e, toRemove |-> <<>>, listener |-> r.listener],
                              channel, now, Len(r.e._activeTimingsPerChannel[channel]), 1)
      removed == [exited.e EXCEPT !._activeTimingsPerChannel[channel] =
                                     RemoveAllAt(@, exited.toRemove, 1)]
  IN  [e |-> EnterPass(removed, channel, now, timingsToAdd, 1), listener |-> exited.listener]

RECURSIVE ResolveEachHeard(_, _, _, _, _)
ResolveEachHeard(r, names, k, lastTime, now) ==
  IF k > Len(names)
  THEN r
  ELSE ResolveEachHeard(_resolveTimingsForChannelHeard(r, names[k], lastTime, now),
                        names, k + 1, lastTime, now)

currentTimeHeard(e, newTime, listener) ==
  LET kept == [e EXCEPT !._lastTimerCallback = Some(newTime)]
      low == IF newTime < 0 THEN 0 ELSE newTime
      clamped == IF low > e._totalDuration THEN e._totalDuration ELSE low
      e1 == emit(kept, "seeking", clamped, <<>>)
      e2 == [e1 EXCEPT !._timer.currentTime = clamped]
      e3 == emit(e2, "timeupdate", clamped, <<>>)
      r == ResolveEachHeard([e |-> e3, listener |-> listener], Names(e3), 1, clamped, clamped)
  IN  [e |-> emit(r.e, "seek", clamped, <<>>), listener |-> r.listener]

(***************************************************************************)
(* playbackRate(rate), lines 161-167, called with a number.                *)
(***************************************************************************)
playbackRate(e, rate) == [e EXCEPT !._timer.rate = rate]

(***************************************************************************)
(* _findTimings, lines 245-260, getTimingsAt, lines 227-234, and           *)
(* getTimingsBetween, lines 236-243, called without a channels argument:   *)
(* per channel name, the timings found.  The two closures a caller passes  *)
(* are the search and the filter of its query, [time |-> t] or             *)
(* [start |-> s, end |-> e].                                               *)
(***************************************************************************)
\* The search closures, lines 228 and 237.
treeSearchFn(query, tree) ==
  IF Has(query, "time")
  THEN SearchPoint(tree, query.time)
  ELSE SearchRange(tree, query.start, query.end)

\* The filter closures with time <= rawTiming.end for the test of line 231.
filterFn_EndInclusive(query, rawTiming) ==
  IF Has(query, "time")
  THEN query.time >= rawTiming.start /\ query.time <= rawTiming.end
  ELSE query.end # rawTiming.end

\* The filter closures, lines 229-232 and 238-241.
filterFn(query, rawTiming) ==
  IF Has(query, "time")
  THEN query.time >= rawTiming.start /\ query.time < rawTiming.end
  ELSE query.end # rawTiming.end

_findTimings(e, query) ==
  [name \in Range(Names(e)) |->
     LET tree == Channel(e, name).tree
         found == SelectSeq(treeSearchFn(query, tree),
                            LAMBDA place : filterFn(query, tree[place].data))
     IN  [k \in DOMAIN found |-> timingFromRawData(name, tree[found[k]].data)]]

getTimingsAt(e, time) == _findTimings(e, [time |-> time])

getTimingsBetween(e, start, end) == _findTimings(e, [start |-> start, end |-> end])

\* The places of the tree entries a query finds in a channel.
Found(e, query, name) ==
  LET tree == Channel(e, name).tree
  IN  SelectSeq(treeSearchFn(query, tree), LAMBDA place : filterFn(query, tree[place].data))

\* A _findTimings that keeps what it finds of each channel as the channel's
\* active list.
_findTimingsCall_KeepsFound(e, query) ==
  [e |-> [e EXCEPT !._activeTimingsPerChannel =
                      [name \in DOMAIN @ |->
                         IF HasChannel(e, name) THEN Found(e, query, name) ELSE @[name]]],
   returned |-> _findTimings(e, query)]

\* The calls as calls: the engine after the call and what the call returned.
\* Lines 245-260 assign to locals only (channels, acc), tree.search, filter
\* and map return new arrays, and timingFromRawData builds new objects.
_findTimingsCall(e, query) == [e |-> e, returned |-> _findTimings(e, query)]

getTimingsAtCall(e, time) == _findTimingsCall(e, [time |-> time])

getTimingsBetweenCall(e, start, end) == _findTimingsCall(e, [start |-> start, end |-> end])

(***************************************************************************)
(* State: the fields of a Kinetophone, the clock (this._timer) and the     *)
(* pending setTimeout of options.tickImmediately; then what is kept of the *)
(* history: the events the last call emitted; the last call and what it    *)
(* threw, where the calls that emit or change no channel (play, pause,     *)
(* currentTime, playbackRate and the callbacks of the clock) are all       *)
(* "playback"; the phase of the playback ("fresh" until play, "forward"    *)
(* while the first play has only been followed by clock ticks, "ended"     *)
(* after its rollover, "other" otherwise) and, per tree entry, the counts  *)
(* of its events in that first playback.                                   *)
(***************************************************************************)
VARIABLES _channels, _activeTimingsPerChannel, _totalDuration, _playing,
          _timer, _lastTimerCallback, _tickResolution, tickImmediately,
          emitted, count, phase, lastOp, twin

progVars == <<_channels, _activeTimingsPerChannel, _totalDuration, _playing,
              _timer, _lastTimerCallback, _tickResolution, tickImmediately>>

vars == <<_channels, _activeTimingsPerChannel, _totalDuration, _playing,
          _timer, _lastTimerCallback, _tickResolution, tickImmediately,
          emitted, count, phase, lastOp, twin>>

\* The engine as the operators take it, its log emptied for the next call.
Engine ==
  [_channels |-> _channels,
   _activeTimingsPerChannel |-> _activeTimingsPerChannel,
   _totalDuration |-> _totalDuration,
   _playing |-> _playing,
   _timer |-> _timer,
   _lastTimerCallback |-> _lastTimerCallback,
   _tickResolution |-> _tickResolution,
   emitted |-> <<>>,
   count |-> count,
   phase |-> phase,
   thrown |-> NoError]

NoCounts(e) ==
  [name \in ChannelNames |-> [i \in DOMAIN e.count[name] |-> [enter |-> 0, exit |-> 0]]]

\* The state after a call that left the engine as r.
Apply(r, op, newPhase) ==
  /\ _channels' = r._channels
  /\ _activeTimingsPerChannel' = r._activeTimingsPerChannel
  /\ _totalDuration' = r._totalDuration
  /\ _playing' = r._playing
  /\ _timer' = r._timer
  /\ _lastTimerCallback' = r._lastTimerCallback
  /\ _tickResolution' = r._tickResolution
  /\ emitted' = r.emitted
  /\ count' = IF newPhase = "other" THEN NoCounts(r) ELSE r.count
  /\ phase' = newPhase
  /\ lastOp' = [op EXCEPT !.thrown = r.thrown]

(***************************************************************************)
(* The constructor, lines 6-28, called with no channels, a total duration  *)
(* and options {timeUpdateResolution, tickImmediately}; a resolution of 0  *)
(* stands for an option that is not given (line 26).                       *)
(***************************************************************************)
Kinetophone(duration, options) ==
  [_channels |-> <<>>,
   _activeTimingsPerChannel |-> <<>>,
   _totalDuration |-> duration,
   _playing |-> FALSE,
   _timer |-> [currentTime |-> 0, running |-> FALSE, rate |-> 1],
   _lastTimerCallback |-> Null,
   _tickResolution |-> IF options.timeUpdateResolution = 0
                       THEN DefaultTickResolution
                       ELSE options.timeUpdateResolution,
   emitted |-> <<>>,
   count |-> [name \in ChannelNames |-> <<>>],
   phase |-> "fresh",
   thrown |-> NoError]

Options == [timeUpdateResolution : {MaxResolution}, tickImmediately : BOOLEAN]

NoTwin == <<>>

Init ==
  \E duration \in 1..MaxDuration, options \in Options :
    LET e == Kinetophone(duration, options)
    IN  /\ _channels = e._channels
        /\ _activeTimingsPerChannel = e._activeTimingsPerChannel
        /\ _totalDuration = e._totalDuration
        /\ _playing = e._playing
        /\ _timer = e._timer
        /\ _lastTimerCallback = e._lastTimerCallback
        /\ _tickResolution = e._tickResolution
        /\ tickImmediately = options.tickImmediately
        /\ emitted = e.emitted
        /\ count = e.count
        /\ phase = e.phase
        /\ lastOp = [op |-> "new", thrown |-> NoError]
        /\ twin = NoTwin

(***************************************************************************)
(* Actions: one per public call, and the two callers of _timerCallback.    *)
(***************************************************************************)
\* Channels and timings added before anything was resolved or played are as
\* if given to the constructor (line 19).
Setup(r) ==
  IF phase = "fresh" /\ _lastTimerCallback = Null /\ r.thrown = NoError
  THEN "fresh" ELSE "other"

AddChannel ==
  \E name \in ChannelNames, timings \in TimingLists :
    LET channel == [name |-> name, timings |-> timings]
        r == addChannel(Engine, channel)
    IN  /\ Apply(r, [op |-> "addChannel", thrown |-> NoError], Setup(r))
        /\ UNCHANGED <<tickImmediately, twin>>

AddTiming ==
  \E channelName \in ChannelNames, timing \in TimingDecls :
    /\ HasChannel(Engine, channelName) => Len(Channel(Engine, channelName).tree) < MaxTimings
    /\ LET r == addTiming(Engine, channelName, timing)
       IN  Apply(r, [op |-> "addTiming", thrown |-> NoError], Setup(r))
    /\ UNCHANGED <<tickImmediately, twin>>

TotalDuration ==
  \E duration \in {Null} \cup {Some(v) : v \in 1..MaxDuration} :
    /\ Apply(totalDuration(Engine, duration),
             [op |-> "totalDuration", thrown |-> NoError], "other")
    /\ UNCHANGED <<tickImmediately, twin>>

Play ==
  /\ Apply(play(Engine), [op |-> "playback", thrown |-> NoError],
           IF phase = "fresh" THEN "forward" ELSE "other")
  /\ UNCHANGED <<tickImmediately, twin>>

Pause ==
  /\ Apply(pause(Engine), [op |-> "playback", thrown |-> NoError], "other")
  /\ UNCHANGED <<tickImmediately, twin>>

CurrentTime ==
  \E newTime \in (0 - 1)..MaxTime :
    /\ Apply(currentTime(Engine, newTime),
             [op |-> "playback", thrown |-> NoError], "other")
    /\ UNCHANGED <<tickImmediately, twin>>

PlaybackRate ==
  \E rate \in 1..MaxRate :
    /\ Apply(playbackRate(Engine, rate),
             [op |-> "playback", thrown |-> NoError], "other")
    /\ UNCHANGED <<tickImmediately, twin>>

\* The clock, running, advances and calls back (line 23).  The time it
\* advances by is its rate times the time elapsed, which is any.
TickTime(timer, step) == timer.currentTime + step

ClockTick(e, step) ==
  LET time == TickTime(e._timer, step)
  IN  _timerCallback([e EXCEPT !._timer.currentTime = time], time)

Tick ==
  \E step \in 0..MaxStep :
    LET time == TickTime(_timer, step)
    IN  /\ _timer.running
        /\ time <= MaxTime
        /\ Apply(ClockTick(Engine, step),
                 [op |-> "playback", thrown |-> NoError],
                 IF phase # "forward" THEN "other"
                 ELSE IF time > _totalDuration THEN "ended" ELSE "forward")
        /\ UNCHANGED <<tickImmediately, twin>>

\* The setTimeout of line 27.
TickImmediately ==
  /\ tickImmediately
  /\ tickImmediately' = FALSE
  /\ Apply(_timerCallback(Engine, 0), [op |-> "playback", thrown |-> NoError],
           IF phase \in {"fresh", "forward"} THEN phase ELSE "other")
  /\ UNCHANGED twin

Next ==
  \/ AddChannel
  \/ AddTiming
  \/ TotalDuration
  \/ Play
  \/ Pause
  \/ CurrentTime
  \/ PlaybackRate
  \/ Tick
  \/ TickImmediately

Spec == Init /\ [][Next]_vars

(***************************************************************************)
(* A playback that is left alone: no pause, no currentTime(t), no          *)
(* totalDuration(v), and a clock that, while it runs, keeps calling back   *)
(* with a time that advances.                                              *)
(***************************************************************************)
AdvancingTick ==
  \E step \in 1..MaxStep :
    LET time == TickTime(_timer, step)
    IN  /\ _timer.running
        /\ time <= MaxTime
        /\ Apply(ClockTick(Engine, step),
                 [op |-> "playback", thrown |-> NoError],
                 IF phase # "forward" THEN "other"
                 ELSE IF time > _totalDuration THEN "ended" ELSE "forward")
        /\ UNCHANGED <<tickImmediately, twin>>

LiveNext ==
  \/ AddChannel
  \/ AddTiming
  \/ Play
  \/ PlaybackRate
  \/ AdvancingTick
  \/ TickImmediately

\* The clock keeps calling back while it runs: WF_vars(AdvancingTick) written
\* out, ENABLED <<AdvancingTick>>_vars being _timer.running (a clock that runs
\* is at totalDuration at most, below MaxTime, and a callback moves it).
ClockKeepsTicking == []<>(~_timer.running) \/ []<><<AdvancingTick>>_vars

LiveSpec == Init /\ [][LiveNext]_vars /\ ClockKeepsTicking

(***************************************************************************)
(* Two engines side by side.  The state variables hold an engine           *)
(* constructed with a channel "a" whose last timing is `timing`; twin.e is *)
(* an engine constructed with the same channel without that timing, which  *)
(* it is given by addTiming (twin.pending until then; twin.late: after a   *)
(* first resolution).  Every call is made on both.  twin.covered: a        *)
(* resolution has been at a time the timing covers while it was pending;   *)
(* the two are then no longer compared.                                    *)
(***************************************************************************)
\* The places of a log that hold an event of a name.
Named(log, name) == {k \in DOMAIN log : log[k].name = name}

\* A tree entry is active at a time from its start to before its end.
Covers(timing, time) == timing.start <= time /\ time < timing.end

TwinBases == {<<>>, <<EndTiming, PointTiming>>}

TwinTimings == {PointTiming, DurationTiming}

Normalized(timing) == _addTimingToTree(<<>>, timing).tree[1]

Constructed(duration, options, timings) ==
  [addChannel(Kinetophone(duration, options), [name |-> "a", timings |-> timings])
     EXCEPT !.phase = "other"]

TwinInit ==
  \E duration \in 1..MaxDuration, base \in TwinBases, timing \in TwinTimings :
    LET options == [timeUpdateResolution |-> MaxResolution, tickImmediately |-> FALSE]
        e == Constructed(duration, options, Append(base, timing))
    IN  /\ _channels = e._channels
        /\ _activeTimingsPerChannel = e._activeTimingsPerChannel
        /\ _totalDuration = e._totalDuration
        /\ _playing = e._playing
        /\ _timer = e._timer
        /\ _lastTimerCallback = e._lastTimerCallback
        /\ _tickResolution = e._tickResolution
        /\ tickImmediately = options.tickImmediately
        /\ emitted = e.emitted
        /\ count = e.count
        /\ phase = e.phase
        /\ lastOp = [op |-> "new", thrown |-> NoError]
        /\ twin = [e |-> Constructed(duration, options, base),
                   timing |-> timing, pending |-> TRUE, covered |-> FALSE, late |-> FALSE]

TwinCompared == ~(twin.pending /\ twin.covered)

\* The call that leaves the first engine as r and the second as r2.
TwinApply(r, r2) ==
  /\ TwinCompared
  /\ Apply(r, [op |-> "playback", thrown |-> NoError], "other")
  /\ twin' = [twin EXCEPT
                !.e = r2,
                !.covered = @ \/ (twin.pending /\ \E k \in Named(r.emitted, "timeupdate") :
                                    Covers(Normalized(twin.timing), r.emitted[k].payload))]
  /\ UNCHANGED tickImmediately

TwinEngine == [twin.e EXCEPT !.emitted = <<>>]

TwinPlay == TwinApply(play(Engine), play(TwinEngine))

TwinPause == TwinApply(pause(Engine), pause(TwinEngine))

TwinCurrentTime ==
  \E newTime \in (0 - 1)..MaxTime :
    TwinApply(currentTime(Engine, newTime), currentTime(TwinEngine, newTime))

TwinTick ==
  \E step \in 0..MaxStep :
    /\ _timer.running
    /\ TickTime(_timer, step) <= MaxTime
    /\ TwinApply(ClockTick(Engine, step), ClockTick(TwinEngine, step))

\* addTiming on the second engine; the events of its last call are kept.
TwinAddTiming ==
  /\ twin.pending
  /\ TwinCompared
  /\ twin' = [twin EXCEPT
                !.e = [addTiming(TwinEngine, "a", twin.timing) EXCEPT !.emitted = twin.e.emitted],
                !.pending = FALSE,
                !.late = _lastTimerCallback # Null]
  /\ UNCHANGED <<progVars, emitted, count, phase, lastOp>>

TwinNext ==
  \/ TwinPlay
  \/ TwinPause
  \/ TwinCurrentTime
  \/ TwinTick
  \/ TwinAddTiming

TwinSpec == TwinInit /\ [][TwinNext]_vars

(***************************************************************************)
(* What the claims are stated with.                                        *)
(***************************************************************************)
Registered == Range(Names(Engine))

Tree(name) == Channel(Engine, name).tree

Active(name) == Range(_activeTimingsPerChannel[name])

\* The names of the enter and exit events of a log that are about one tree
\* entry, in the order of the log.
EventsOf(log, of) ==
  LET about == SelectSeq(log, LAMBDA ev : ev.of = of /\ ev.name \in {"enter", "exit"})
  IN  [k \in DOMAIN about |-> about[k].name]

\* The number of places of a sequence that hold x.
CountIn(seq, x) == Cardinality({k \in DOMAIN seq : seq[k] = x})

SameBag(s, t) == \A x \in Range(s) \cup Range(t) : CountIn(s, x) = CountIn(t, x)

(***************************************************************************)
(* C1.  In a first, uninterrupted forward playback, a timing (s, e) with   *)
(* 0 <= s < e <= totalDuration has had exactly one enter as soon as a      *)
(* resolution has covered s (none before) and exactly one exit as soon as  *)
(* a resolution has covered e (none before); after the rollover it has had *)
(* one of each.  The windows resolved so far cover 0.._lastTimerCallback.  *)
(***************************************************************************)
Reached(time) ==
  \/ phase = "ended"
  \/ _lastTimerCallback # Null /\ ValueOf(_lastTimerCallback) >= time

C1_OneEnterOneExitForward ==
  phase \in {"forward", "ended"} =>
    \A name \in Registered : \A i \in DOMAIN Tree(name) :
      LET timing == Tree(name)[i]
      IN  (0 <= timing.start /\ timing.start < timing.end /\ timing.end <= _totalDuration) =>
            /\ count[name][i].enter = IF Reached(timing.start) THEN 1 ELSE 0
            /\ count[name][i].exit = IF Reached(timing.end) THEN 1 ELSE 0

(***************************************************************************)
(* C2.  In every step of play, pause, currentTime, playbackRate or a clock *)
(* callback, the enter/exit events of each tree entry alternate; they      *)
(* begin with exit if the entry was in its channel's active list and with  *)
(* enter if it was not, and the entry is in the active list afterwards     *)
(* exactly if its last event is enter (with no event, if it was before).   *)
(* No entry is active initially, so over a run each entry's events         *)
(* alternate and begin with enter.                                         *)
(***************************************************************************)
Opposite(name) == IF name = "enter" THEN "exit" ELSE "enter"

Alternates(first, names) ==
  \A k \in DOMAIN names : names[k] = IF k % 2 = 1 THEN first ELSE Opposite(first)

C2_Step ==
  lastOp'.op = "playback" =>
    \A name \in Registered : \A i \in DOMAIN Tree(name) :
      LET names == EventsOf(emitted', <<name, i>>)
          was == i \in Active(name)
          is == i \in Range(_activeTimingsPerChannel'[name])
      IN  /\ Alternates(IF was THEN "exit" ELSE "enter", names)
          /\ is <=> IF names = <<>> THEN was ELSE names[Len(names)] = "enter"

C2_EnterExitAlternate == [][C2_Step]_vars

\* A call has emitted enter and then exit for one entry (a rollover).
C2_Witness ==
  \E name \in Registered : \E i \in DOMAIN Tree(name) :
    EventsOf(emitted, <<name, i>>) = <<"enter", "exit">>

(***************************************************************************)
(* C3.  After currentTime(t) with 0 <= t <= totalDuration (the call that   *)
(* emits seek last, and leaves t in _lastTimerCallback), the timings of    *)
(* each channel's active list are those getTimingsAt(t) returns for it.    *)
(***************************************************************************)
AfterSeek == emitted # <<>> /\ emitted[Len(emitted)].name = "seek"

ActiveTimings(name) ==
  [k \in DOMAIN _activeTimingsPerChannel[name] |->
     timingFromRawData(name, Tree(name)[_activeTimingsPerChannel[name][k]].data)]

C3_SeekDeterminism ==
  (AfterSeek /\ ValueOf(_lastTimerCallback) \in 0.._totalDuration) =>
    LET at == getTimingsAt(Engine, ValueOf(_lastTimerCallback))
    IN  \A name \in Registered :
          /\ SameBag(ActiveTimings(name), at[name])
          /\ Len(ActiveTimings(name)) = Len(at[name])

\* A seek backward has made one timing exit and another enter.
C3_Witness ==
  /\ AfterSeek
  /\ ValueOf(_lastTimerCallback) \in 0.._totalDuration
  /\ Named(emitted, "exit") # {}
  /\ Named(emitted, "enter") # {}
  /\ \E name \in Registered : Len(_activeTimingsPerChannel[name]) > 0

(***************************************************************************)
(* C4.  As claimed: in every reachable state each active timing covers the *)
(* clock's time, and no timing is in an active list twice.                 *)
(***************************************************************************)
NoDuplicates(seq) == \A j, k \in DOMAIN seq : seq[j] = seq[k] => j = k

C4_ActiveCoversClock ==
  \A name \in Registered :
    /\ \A i \in Active(name) : Covers(Tree(name)[i], _timer.currentTime)
    /\ NoDuplicates(_activeTimingsPerChannel[name])

(***************************************************************************)
(* C4, amended.  In the state a resolving call leaves (a currentTime(t),   *)
(* or a clock callback that is not batched away: the calls that emit       *)
(* timeupdate), each active timing covers the clock's time; a callback     *)
(* that is batched away moves the clock and leaves the active lists.  In   *)
(* every reachable state no timing is in an active list twice.             *)
(***************************************************************************)
Resolved == Named(emitted, "timeupdate") # {}

C4_ActiveCoversResolvedTime ==
  \A name \in Registered :
    /\ Resolved => \A i \in Active(name) : Covers(Tree(name)[i], _timer.currentTime)
    /\ NoDuplicates(_activeTimingsPerChannel[name])

\* A resolution has left two timings active.
C4_Witness ==
  /\ Resolved
  /\ \E name \in Registered : Len(_activeTimingsPerChannel[name]) >= 2

(***************************************************************************)
(* C5.  In every reachable state with the clock running, a callback with a *)
(* time above totalDuration leaves the engine paused, the clock stopped at *)
(* 0, _lastTimerCallback null and every active list empty; it emits pause  *)
(* once, then exit and exit:<channel> once for each timing that was active *)
(* when the lists were cleared and for no other, then end, once and last.  *)
(* A callback with a time up to totalDuration emits no end.  The clock is  *)
(* stopped after an end, so there is one per crossing.                     *)
(***************************************************************************)
\* Whether entry <<name, i>> is active after the events of log, when it was
\* in the active list `before` them exactly if `was`.
ActiveAfter(log, name, i, was) ==
  LET names == EventsOf(log, <<name, i>>)
  IN  IF names = <<>> THEN was ELSE names[Len(names)] = "enter"

RolledOver(e, r) ==
  LET log == r.emitted
      pauses == Named(log, "pause")
      p == CHOOSE k \in pauses : TRUE
      clearing == SubSeq(log, p + 1, Len(log) - 1)
  IN  /\ ~r._playing
      /\ ~r._timer.running
      /\ r._timer.currentTime = 0
      /\ r._lastTimerCallback = Null
      /\ \A name \in Range(Names(r)) : r._activeTimingsPerChannel[name] = <<>>
      /\ Cardinality(pauses) = 1
      /\ Named(log, "end") = {Len(log)}
      /\ \A name \in Range(Names(e)) : \A i \in DOMAIN Channel(e, name).tree :
           LET was == ActiveAfter(SubSeq(log, 1, p - 1), name, i,
                                  i \in Range(e._activeTimingsPerChannel[name]))
               exits(event) == {k \in DOMAIN clearing :
                                  clearing[k].name = event /\ clearing[k].of = <<name, i>>}
           IN  /\ Cardinality(exits("exit")) = IF was THEN 1 ELSE 0
               /\ Cardinality(exits("exit:" \o name)) = IF was THEN 1 ELSE 0
      /\ \A k \in DOMAIN clearing : clearing[k].of # <<>>

C5_Rollover ==
  /\ \A step \in 0..MaxStep :
       (_timer.running /\ TickTime(_timer, step) <= MaxTime) =>
         IF TickTime(_timer, step) > _totalDuration
         THEN RolledOver(Engine, ClockTick(Engine, step))
         ELSE Named(ClockTick(Engine, step).emitted, "end") = {}
  /\ Named(emitted, "end") # {} => ~_timer.running /\ _timer.currentTime = 0

\* A rollover has made an active timing exit.
C5_Witness ==
  /\ Named(emitted, "end") # {}
  /\ \E p \in Named(emitted, "pause") : \E k \in Named(emitted, "exit") : k > p

(***************************************************************************)
(* C6.  In the events of one resolution (those a call emits before any     *)
(* pause: a rollover clears the lists after it), no exit or exit:<channel> *)
(* of a channel follows an enter or enter:<channel> of that channel, and   *)
(* no tree entry has both an exit and an enter.                            *)
(***************************************************************************)
Resolution(log) ==
  IF Named(log, "pause") = {}
  THEN log
  ELSE SubSeq(log, 1, (CHOOSE p \in Named(log, "pause") : \A q \in Named(log, "pause") : p <= q) - 1)

IsEnter(ev, name) == ev.name \in {"enter", "enter:" \o name} /\ ev.of[1] = name

IsExit(ev, name) == ev.name \in {"exit", "exit:" \o name} /\ ev.of[1] = name

C6_ExitsBeforeEnters ==
  LET log == Resolution(emitted)
  IN  \A name \in Registered :
        /\ \A j, k \in DOMAIN log : (IsEnter(log[j], name) /\ IsExit(log[k], name)) => k < j
        /\ \A i \in DOMAIN Tree(name) : Len(EventsOf(log, <<name, i>>)) <= 1

\* One resolution has made a timing of a channel exit and another enter.
C6_Witness ==
  LET log == Resolution(emitted)
  IN  \E name \in Registered : \E j, k \in DOMAIN log :
        IsExit(log[j], name) /\ IsEnter(log[k], name)

(***************************************************************************)
(* C7.  An addChannel that throws for a timing with both end and duration  *)
(* leaves nothing of the channel: the names of the channels, and what      *)
(* getTimingsAt returns at any time, are as before the call.               *)
(***************************************************************************)
SameTimingsAt(e, f) == \A t \in 0..MaxTime : getTimingsAt(e, t) = getTimingsAt(f, t)

C7_Step ==
  (lastOp'.op = "addChannel" /\ lastOp'.thrown = ConflictingBounds) =>
    /\ Names(Engine') = Names(Engine)
    /\ SameTimingsAt(Engine', Engine)

C7_FailedAddChannelLeavesNothing == [][C7_Step]_vars

(***************************************************************************)
(* C8.  A totalDuration(v) that returns leaves what getTimingsAt returns,  *)
(* at any time and for every channel, as before the call.                  *)
(***************************************************************************)
C8_Step ==
  (lastOp'.op = "totalDuration" /\ lastOp'.thrown = NoError) => SameTimingsAt(Engine', Engine)

C8_TotalDurationKeepsTimings == [][C8_Step]_vars

(***************************************************************************)
(* C9.  In every reachable state, addChannel with the name of a channel    *)
(* there is throws DuplicateChannel, emits nothing and leaves every field  *)
(* of the engine as it was.                                                *)
(***************************************************************************)
C9_DuplicateChannelRejected ==
  \A name \in Registered : \A timings \in TimingLists :
    addChannel(Engine, [name |-> name, timings |-> timings])
      = [Engine EXCEPT !.thrown = DuplicateChannel]

\* An addChannel has thrown DuplicateChannel where a channel has active timings.
C9_Witness ==
  /\ lastOp = [op |-> "addChannel", thrown |-> DuplicateChannel]
  /\ \E name \in Registered : _activeTimingsPerChannel[name] # <<>>

(***************************************************************************)
(* C10.  Of two engines given the same calls of play, pause, currentTime   *)
(* and the same clock callbacks, one constructed with a timing and one     *)
(* given it by addTiming before a resolution at a time the timing covers:  *)
(* the events of each call and the active lists are the same, and so are   *)
(* the clock, the playing flag and _lastTimerCallback.                     *)
(***************************************************************************)
C10_AddTimingAsConstructed ==
  TwinCompared =>
    /\ twin.e.emitted = emitted
    /\ twin.e._activeTimingsPerChannel = _activeTimingsPerChannel
    /\ twin.e._playing = _playing
    /\ twin.e._timer = _timer
    /\ twin.e._lastTimerCallback = _lastTimerCallback

\* The timing given by addTiming after a first resolution has entered, in
\* both engines, while another timing was active.
C10_Witness ==
  /\ ~twin.pending
  /\ twin.late
  /\ Len(twin.e._activeTimingsPerChannel["a"]) >= 2
  /\ \E k \in Named(twin.e.emitted, "enter") :
       twin.e.emitted[k].of = <<"a", Len(Tree("a"))>>

(***************************************************************************)
(* C11.  In every reachable state no tree holds a timing that declares     *)
(* both end and duration, so neither getTimingsAt nor getTimingsBetween    *)
(* returns one and no enter or exit carries one; addTiming of such a       *)
(* timing to a channel that is there throws ConflictingBounds and leaves   *)
(* every field of the engine as it was, and addChannel of a new channel    *)
(* with such a timing throws ConflictingBounds.                            *)
(***************************************************************************)
DeclaresBoth(timing) == Has(timing, "end") /\ Has(timing, "duration")

C11_ConflictingBoundsRejected ==
  /\ \A name \in Registered :
       /\ \A i \in DOMAIN Tree(name) : ~DeclaresBoth(Tree(name)[i].data.data)
       /\ \A t \in 0..MaxTime :
            \A k \in DOMAIN getTimingsAt(Engine, t)[name] :
              ~DeclaresBoth(getTimingsAt(Engine, t)[name][k])
       /\ \A s \in 0..MaxTime : \A t \in s..(MaxTime + 1) :
            \A k \in DOMAIN getTimingsBetween(Engine, s, t)[name] :
              ~DeclaresBoth(getTimingsBetween(Engine, s, t)[name][k])
       /\ addTiming(Engine, name, BothTiming) = [Engine EXCEPT !.thrown = ConflictingBounds]
  /\ \A k \in DOMAIN emitted : emitted[k].of # <<>> => ~DeclaresBoth(emitted[k].payload)
  /\ \A name \in ChannelNames \ Registered : \A timings \in TimingLists :
       (\E k \in DOMAIN timings : DeclaresBoth(timings[k])) =>
         addChannel(Engine, [name |-> name, timings |-> timings]).thrown = ConflictingBounds

\* An addTiming has thrown ConflictingBounds where a channel has an active
\* timing.
C11_Witness ==
  /\ lastOp = [op |-> "addTiming", thrown |-> ConflictingBounds]
  /\ \E name \in Registered : _activeTimingsPerChannel[name] # <<>>

(***************************************************************************)
(* C12.  Where the engine is playing, play() emits nothing and changes     *)
(* nothing, and where it is not, pause() does.  In every step (any call,   *)
(* any clock callback, rollover included) the play and pause events        *)
(* emitted alternate, beginning with pause if the engine was playing and   *)
(* with play if it was not, and the engine is playing afterwards exactly   *)
(* if the last of them is play (with none, if it was before).  The engine  *)
(* is not playing initially, so over a run play and pause alternate,       *)
(* beginning with play, and playing() is true exactly after a play.        *)
(***************************************************************************)
PlayPause(log) ==
  LET about == SelectSeq(log, LAMBDA ev : ev.name \in {"play", "pause"})
  IN  [k \in DOMAIN about |-> about[k].name]

C12_Step ==
  LET names == PlayPause(emitted')
      first == IF _playing THEN "pause" ELSE "play"
      second == IF _playing THEN "play" ELSE "pause"
  IN  /\ _playing => play(Engine) = Engine
      /\ ~_playing => pause(Engine) = Engine
      /\ \A k \in DOMAIN names : names[k] = IF k % 2 = 1 THEN first ELSE second
      /\ _playing' = IF names = <<>> THEN _playing ELSE names[Len(names)] = "play"

C12_PlayPauseAlternate == [][C12_Step]_vars

\* A play has resumed a playback that was paused after a resolution.
C12_Witness ==
  /\ _playing
  /\ Named(emitted, "play") # {}
  /\ phase = "other"
  /\ _lastTimerCallback # Null

C14_ListenerSeekSafe ==
  \A t1, t2 \in 0..MaxTime :
    LET r == currentTimeHeard(Engine, t1, [pending |-> TRUE, time |-> t2])
    IN  ~r.listener.pending =>
          \A name \in Registered :
            /\ Range(r.e._activeTimingsPerChannel[name])
                 = {i \in DOMAIN Tree(name) : Covers(Tree(name)[i], r.e._timer.currentTime)}
            /\ \A i \in DOMAIN Tree(name) :
                 Alternates(IF i \in Active(name) THEN "exit" ELSE "enter",
                            EventsOf(r.e.emitted, <<name, i>>))

(***************************************************************************)
(* C15.  After currentTime(x), for any x, _lastTimerCallback is the time   *)
(* the clock was set to (x clamped into 0..totalDuration), which is also   *)
(* what the seeking, timeupdate and seek events carry.                     *)
(***************************************************************************)
C15_SeekKeepsClampedTime ==
  AfterSeek =>
    /\ _lastTimerCallback = Some(_timer.currentTime)
    /\ \A k \in DOMAIN emitted :
         emitted[k].name \in {"seeking", "timeupdate", "seek"} =>
           emitted[k].payload = _timer.currentTime

(***************************************************************************)
(* C16.  In every reachable state with the clock running and               *)
(* _lastTimerCallback = L set, a callback with time t:                     *)
(*   if t - L >= _tickResolution, emits timeupdate(t) once and first;      *)
(*   then, before any pause of a rollover, exit for exactly the entries    *)
(*   that were active and do not cover t and enter for exactly those that  *)
(*   were not active and cover t (they meet the window L+1..t); and with   *)
(*   t <= totalDuration leaves _lastTimerCallback = t;                     *)
(*   if t - L < _tickResolution and t <= totalDuration, emits nothing and  *)
(*   leaves every field but the clock's time as it was.                    *)
(***************************************************************************)
EventsIn(log, name, of) == {k \in DOMAIN log : log[k].name = name /\ log[k].of = of}

C16_TickBatching ==
  \A step \in 0..MaxStep :
    LET t == TickTime(_timer, step)
    IN  (_timer.running /\ _lastTimerCallback # Null /\ t <= MaxTime) =>
          LET L == ValueOf(_lastTimerCallback)
              r == ClockTick(Engine, step)
              log == Resolution(r.emitted)
          IN  IF t - L >= _tickResolution
              THEN /\ Named(r.emitted, "timeupdate") = {1}
                   /\ r.emitted[1].payload = t
                   /\ t <= _totalDuration => r._lastTimerCallback = Some(t)
                   /\ \A name \in Registered : \A i \in DOMAIN Tree(name) :
                        LET was == i \in Active(name)
                            covers == Covers(Tree(name)[i], t)
                        IN  /\ Cardinality(EventsIn(log, "exit", <<name, i>>))
                                 = IF was /\ ~covers THEN 1 ELSE 0
                            /\ Cardinality(EventsIn(log, "enter", <<name, i>>))
                                 = IF ~was /\ covers THEN 1 ELSE 0
                            /\ (~was /\ covers) =>
                                 i \in Range(SearchRange(Tree(name), L + 1, t))
              ELSE t <= _totalDuration => r = [Engine EXCEPT !._timer.currentTime = t]

\* A callback a full resolution after the last has made a timing enter.
C16_Witness ==
  /\ _timer.running
  /\ emitted # <<>>
  /\ emitted[1].name = "timeupdate"
  /\ _timer.currentTime >= _tickResolution
  /\ _lastTimerCallback = Some(_timer.currentTime)
  /\ Named(emitted, "enter") # {}

(***************************************************************************)
(* C17.  In every reachable state where the engine is not playing, play()  *)
(* with the clock at or past totalDuration leaves the clock at 0,          *)
(* _lastTimerCallback null and every active list empty, having emitted     *)
(* exit and exit:<channel> once for each entry that was active and for no  *)
(* other, and then play, last; with the clock before totalDuration it      *)
(* emits play only and leaves the clock's time, _lastTimerCallback and the *)
(* active lists as they were.  Either way the engine is playing and the    *)
(* clock running afterwards.                                               *)
(***************************************************************************)
C17_PlayFromEnd ==
  ~_playing =>
    LET r == play(Engine)
        play1 == [name |-> "play", payload |-> <<>>, of |-> <<>>]
    IN  IF _timer.currentTime >= _totalDuration
        THEN /\ r._timer = [_timer EXCEPT !.currentTime = 0, !.running = TRUE]
             /\ r._playing
             /\ r._lastTimerCallback = Null
             /\ \A name \in Registered : r._activeTimingsPerChannel[name] = <<>>
             /\ Named(r.emitted, "play") = {Len(r.emitted)}
             /\ \A k \in 1..(Len(r.emitted) - 1) : r.emitted[k].of # <<>>
             /\ \A name \in Registered : \A i \in DOMAIN Tree(name) :
                  LET n == IF i \in Active(name) THEN 1 ELSE 0
                  IN  /\ Cardinality(EventsIn(r.emitted, "exit", <<name, i>>)) = n
                      /\ Cardinality(EventsIn(r.emitted, "exit:" \o name, <<name, i>>)) = n
                      /\ EventsIn(r.emitted, "enter", <<name, i>>) = {}
        ELSE r = [Engine EXCEPT !._playing = TRUE, !._timer.running = TRUE,
                                !.emitted = <<play1>>]

\* A play from the end has made an active timing exit.
C17_Witness ==
  /\ _playing
  /\ emitted # <<>>
  /\ emitted[Len(emitted)].name = "play"
  /\ Named(emitted, "exit") # {}

(***************************************************************************)
(* C18.  In every step, an entry that leaves a channel's active list has   *)
(* an exit among the events of the step, and one that joins it an enter.   *)
(***************************************************************************)
C18_Step ==
  \A name \in Registered : \A i \in DOMAIN Tree(name) :
    LET was == i \in Active(name)
        is == /\ name \in DOMAIN _activeTimingsPerChannel'
              /\ i \in Range(_activeTimingsPerChannel'[name])
    IN  /\ (was /\ ~is) => EventsIn(emitted', "exit", <<name, i>>) # {}
        /\ (~was /\ is) => EventsIn(emitted', "enter", <<name, i>>) # {}

C18_ActiveChangesWithEvents == [][C18_Step]_vars

(***************************************************************************)
(* C19.  In a playback that is left alone, with a clock that keeps calling *)
(* back with advancing time: whenever the engine is playing, eventually    *)
(* end has been emitted, and in that state the engine is not playing, the  *)
(* clock is at 0, _lastTimerCallback is null and every active list is      *)
(* empty.                                                                  *)
(***************************************************************************)
Ended ==
  /\ Named(emitted, "end") # {}
  /\ ~_playing
  /\ _timer.currentTime = 0
  /\ _lastTimerCallback = Null
  /\ \A name \in Registered : _activeTimingsPerChannel[name] = <<>>

C19_PlaybackEnds == _playing ~> Ended

\* The first playback has ended, and its rollover has made a timing exit.
C19_Witness ==
  /\ Ended
  /\ phase = "ended"
  /\ Named(emitted, "exit") # {}

(***************************************************************************)
(* C20.  In every reachable state the engine is playing exactly if the     *)
(* clock is running (the clock calls back only while it runs, so a         *)
(* callback of the clock finds the engine playing), and after an end the   *)
(* clock is stopped.                                                       *)
(***************************************************************************)
C20_PlayingIsRunning ==
  /\ _playing = _timer.running
  /\ Named(emitted, "end") # {} => ~_timer.running

\* A callback that was batched away has rolled over and stopped the clock.
C20_Witness ==
  /\ Named(emitted, "end") # {}
  /\ Named(emitted, "timeupdate") = {}
  /\ ~_timer.running
  /\ ~_playing

====
